---- MODULE Spec2Model ----
(***************************************************************************)
(* Risk-Reward-Simulator: the game ledger kept by GameProvider (balance,   *)
(* currentRisk, betHistory, gameState, isProcessingBet), its operations    *)
(* placeBet / calculateRisk / resetGame, and the BetCard component that    *)
(* schedules placeBet one second after the click.                          *)
(*                                                                         *)
(* The repository carries two revisions of context/GameContext.tsx.  They  *)
(* share the catalog, calculateRisk, the validation and resetGame and      *)
(* differ in what placeBet returns, how the record is stored and whether   *)
(* currentRisk is updated.  The variable impl selects the revision:        *)
(*   "v1"  src/unnamed/part_009                                            *)
(*   "v2"  src/src/components/ui/Tooltip.tsx (lines 153-483)               *)
(*                                                                         *)
(* Numbers.  Money is an integer number of dollars; bet amounts are drawn  *)
(* from the even integers of Amounts, so amount * (multiplier - 1) is      *)
(* exact for every catalog multiplier (3.5 included).  Probabilities are   *)
(* in thousandths (winChance1000) and multipliers in tenths (mult10).      *)
(* Math.round is round-half-up on the exact rational value.                *)
(***************************************************************************)
EXTENDS Integers, Sequences, FiniteSets, TLC

VARIABLES impl, balance, currentRisk, betHistory, gameState,
          isProcessingBet, pending, nBets, last, probe, now

ledgerVars == <<balance, currentRisk, betHistory, gameState>>
vars == <<impl, balance, currentRisk, betHistory, gameState,
          isProcessingBet, pending, nBets, last, probe, now>>

(***************************************************************************)
(* Bounds of the model                                                     *)
(***************************************************************************)
\* wagers accepted in one run of the model (resets do not refill it)
MaxBets == 2
\* BetCard submissions whose one-second timer has not fired yet
MaxPending == 2
\* milliseconds the clock advances in one run of the model
MaxClock == 2

\* amounts a caller passes to placeBet
Amounts == {6, 50, 100, 200, 1000, 6000}
\* events selected and amounts typed in the BetForm (the field takes any
\* number: 995 leaves 5 of the first 1000)
FormEvents == {"coin-flip", "roulette"}
FormAmounts == {100, 995, 1000}
\* events whose BetCard is on screen
CardEvents == {"coin-flip", "roulette"}
\* amounts of the BetCard quick-bet buttons
CardAmounts == {100, 500}
\* Math.random() in thousandths: 0 wins every event, 999 loses every event
Draws == {0, 999}
\* Math.floor(Math.random() * 1000) of the v2 bet id: two of its 1000 values
\* for the BetForm; the other callers are followed with one value, since
\* the id enters no ledger computation
IdDraws == {7, 512}
OtherIdDraws == {7}

(***************************************************************************)
(* Catalog                                                                 *)
(***************************************************************************)
\* maxBet: null
NoMax == -1
INITIAL_BALANCE == 1000
GOAL_AMOUNT == 10000
DEFAULT_RISK == 15

betEvents ==
  [e \in {"coin-flip", "dice-roll", "bullseye", "roulette", "sports-match", "mega-jackpot"} |->
    CASE e = "coin-flip"    -> [name |-> "Coin Flip",    mult10 |-> 20,  winChance1000 |-> 500, minBet |-> 10,  maxBet |-> NoMax]
      [] e = "dice-roll"    -> [name |-> "Dice Roll",    mult10 |-> 60,  winChance1000 |-> 166, minBet |-> 50,  maxBet |-> 2000]
      [] e = "bullseye"     -> [name |-> "Bullseye",     mult10 |-> 30,  winChance1000 |-> 330, minBet |-> 30,  maxBet |-> 1500]
      [] e = "roulette"     -> [name |-> "Roulette",     mult10 |-> 350, winChance1000 |-> 27,  minBet |-> 100, maxBet |-> 1000]
      [] e = "sports-match" -> [name |-> "Sports Match", mult10 |-> 35,  winChance1000 |-> 300, minBet |-> 25,  maxBet |-> 5000]
      [] e = "mega-jackpot" -> [name |-> "Mega Jackpot", mult10 |-> 200, winChance1000 |-> 50,  minBet |-> 200, maxBet |-> 2000]]

EventIds == DOMAIN betEvents
\* ids a caller may pass: the catalog and one id that is not in it
EventArgs == EventIds \cup {"lottery"}

\* mutant of personas: the middle range starts at 32, so 31 belongs to nobody
personasGapAt31 ==
  << [id |-> "baby-betsy",          name |-> "Baby Betsy",          maxBetPercentage10 |-> 1,  riskRange |-> [min |-> 0,  max |-> 30]],
     [id |-> "midlife-crisis-mike", name |-> "Midlife Crisis Mike", maxBetPercentage10 |-> 3,  riskRange |-> [min |-> 32, max |-> 70]],
     [id |-> "yolo-yolanda",        name |-> "YOLO Yolanda",        maxBetPercentage10 |-> 10, riskRange |-> [min |-> 71, max |-> 100]] >>

personas ==
  << [id |-> "baby-betsy",          name |-> "Baby Betsy",          maxBetPercentage10 |-> 1,  riskRange |-> [min |-> 0,  max |-> 30]],
     [id |-> "midlife-crisis-mike", name |-> "Midlife Crisis Mike", maxBetPercentage10 |-> 3,  riskRange |-> [min |-> 31, max |-> 70]],
     [id |-> "yolo-yolanda",        name |-> "YOLO Yolanda",        maxBetPercentage10 |-> 10, riskRange |-> [min |-> 71, max |-> 100]] >>

(***************************************************************************)
(* Pure helpers                                                            *)
(***************************************************************************)
\* mutant of MathRound: Math.floor in its place
MathFloor(num, den) == num \div den

\* Math.round(num/den) for den > 0: the nearest integer, halves upward
MathRound(num, den) == (2 * num + den) \div (2 * den)

Min(a, b) == IF a <= b THEN a ELSE b

\* personas.find(p => risk >= p.riskRange.min && risk <= p.riskRange.max) || personas[0]
getCurrentPersona(risk) ==
  LET hits == {i \in 1..Len(personas) :
                 risk >= personas[i].riskRange.min /\ risk <= personas[i].riskRange.max}
  IN  IF hits = {} THEN personas[1]
      ELSE personas[CHOOSE i \in hits : \A j \in hits : i <= j]

\* mutant of riskFormula: the bet size term counts the share of the balance
\* that is left, 50 * (1 - betSizeFactor)
riskFormulaShareLeft(bal, p1000, num, den) ==
  LET capped == num >= den * bal
      rawNum == IF capped
                  THEN 3 * (1000 - p1000) * den * bal + 20 * 100 * den * bal
                  ELSE 50 * 100 * (den * bal - num) + 3 * (1000 - p1000) * den * bal + 20 * 100 * num
  IN  Min(MathRound(rawNum, 100 * den * bal), 100)

\* lines 204-219 of calculateRisk for a bet of num/den dollars at win
\* probability p1000/1000, bal > 0:
\*   betSizeFactor = lossImpactFactor = min(betAmount / balance, 1)
\*   riskPercentage = 50*betSizeFactor + 30*(1 - winChance) + 20*lossImpactFactor
\*   return min(round(riskPercentage), 100)
\* over the common denominator 100 * den * bal
riskFormula(bal, p1000, num, den) ==
  LET capped == num >= den * bal
      rawNum == IF capped
                  THEN 50 * 100 * den * bal + 3 * (1000 - p1000) * den * bal + 20 * 100 * den * bal
                  ELSE 50 * 100 * num + 3 * (1000 - p1000) * den * bal + 20 * 100 * num
  IN  Min(MathRound(rawNum, 100 * den * bal), 100)

\* calculateRisk(eventId, betAmount) as seen by a closure whose balance is bal;
\* betAmount = num/den
calculateRisk(bal, eventId, num, den) ==
  IF eventId \notin EventIds \/ bal <= 0 THEN 0
  ELSE riskFormula(bal, betEvents[eventId].winChance1000, num, den)

\* utils/betting calculateRiskPercentage(betAmount, balance, eventProbability)
\* for balance > 0, as the exact fraction num/den:
\*   risk = (betAmount/balance)*50 + (1 - eventProbability)*30 + (betAmount/balance)*20
\*   return Math.min(100, Math.max(0, risk * 100))
\* risk * 100 = (7000*betAmount + 3*(1000 - p1000)*balance) / balance
calculateRiskPercentage(betAmount, bal, p1000) ==
  LET num == 7000 * betAmount + 3 * (1000 - p1000) * bal
  IN  IF num >= 100 * bal THEN [num |-> 100, den |-> 1]
      ELSE IF num <= 0 THEN [num |-> 0, den |-> 1]
      ELSE [num |-> num, den |-> bal]

(***************************************************************************)
(* placeBet                                                                *)
(***************************************************************************)
\* what a render's placeBet closure sees: the state values of that render
Closure == [balance |-> balance, gameState |-> gameState, betHistory |-> betHistory]

Ledger == [balance |-> balance, gameState |-> gameState, betHistory |-> betHistory]

\* mutant of validate: the balance check left out
validateNoBalanceCheck(c, eventId, amount) ==
  IF eventId \notin EventIds \/ c.gameState # "playing" THEN "silent"
  ELSE IF \/ amount < betEvents[eventId].minBet
          \/ (betEvents[eventId].maxBet # NoMax /\ amount > betEvents[eventId].maxBet)
       THEN "Invalid bet amount"
  ELSE "ok"

\* mutant of validate: the lower limit compared with <= (a stake equal to
\* minBet is turned away)
validateStrictMin(c, eventId, amount) ==
  IF eventId \notin EventIds \/ c.gameState # "playing" THEN "silent"
  ELSE IF \/ amount <= betEvents[eventId].minBet
          \/ (betEvents[eventId].maxBet # NoMax /\ amount > betEvents[eventId].maxBet)
       THEN "Invalid bet amount"
  ELSE IF amount > c.balance THEN "Not enough balance"
  ELSE "ok"

\* the early returns of placeBet: "ok", or the reason it returns false.
\* "silent" is the return without a console message (event not found or
\* game not playing); the other two are the console.log texts
validate(c, eventId, amount) ==
  IF eventId \notin EventIds \/ c.gameState # "playing" THEN "silent"
  ELSE IF \/ amount < betEvents[eventId].minBet
          \/ (betEvents[eventId].maxBet # NoMax /\ amount > betEvents[eventId].maxBet)
       THEN "Invalid bet amount"
  ELSE IF amount > c.balance THEN "Not enough balance"
  ELSE "ok"

\* isWin = randomValue < event.winChance
drawIsWin(eventId, randomValue) == randomValue < betEvents[eventId].winChance1000

\* Math.random() is drawn only once the checks have passed
DrawsFor(c, eventId, amount) == IF validate(c, eventId, amount) = "ok" THEN Draws ELSE {0}

\* the second Math.random(), of the bet id: v2 only, once the checks passed
IdDrawsFor(c, eventId, amount, path) ==
  IF impl = "v2" /\ validate(c, eventId, amount) = "ok"
    THEN (IF path = "form" THEN IdDraws ELSE OtherIdDraws)
    ELSE {0}

\* mutant of settlement: a win credits the gross payout amount * multiplier
settlementGross(eventId, amount, isWin) ==
  IF isWin THEN (amount * betEvents[eventId].mult10) \div 10 ELSE -amount

\* winAmount = isWin ? amount * (event.multiplier - 1) : -amount
settlement(eventId, amount, isWin) ==
  IF isWin THEN (amount * (betEvents[eventId].mult10 - 10)) \div 10 ELSE -amount

\* the bet id: v1 `bet-${Date.now()}`, v2 `bet-${Date.now()}-${idRandom}`
betId(idRandom) == IF impl = "v1" THEN <<"bet", now>> ELSE <<"bet", now, idRandom>>

\* mutant of historyEntry: balanceAfter holds the balance before the bet
historyEntryBalanceBefore(c, eventId, amount, isWin, idRandom) ==
  [id             |-> betId(idRandom),
   timestamp      |-> now,
   eventId        |-> eventId,
   eventName      |-> betEvents[eventId].name,
   betAmount      |-> amount,
   outcome        |-> IF isWin THEN "win" ELSE "loss",
   winAmount      |-> IF impl = "v1"
                        THEN (IF isWin THEN settlement(eventId, amount, TRUE) ELSE 0)
                        ELSE settlement(eventId, amount, isWin),
   balanceAfter   |-> c.balance,
   riskPercentage |-> calculateRisk(c.balance, eventId, amount, 1)]

\* the record placeBet builds; timestamp: new Date() is the clock reading
historyEntry(c, eventId, amount, isWin, idRandom) ==
  [id             |-> betId(idRandom),
   timestamp      |-> now,
   eventId        |-> eventId,
   eventName      |-> betEvents[eventId].name,
   betAmount      |-> amount,
   outcome        |-> IF isWin THEN "win" ELSE "loss",
   winAmount      |-> IF impl = "v1"
                        THEN (IF isWin THEN settlement(eventId, amount, TRUE) ELSE 0)
                        ELSE settlement(eventId, amount, isWin),
   balanceAfter   |-> c.balance + settlement(eventId, amount, isWin),
   riskPercentage |-> calculateRisk(c.balance, eventId, amount, 1)]

\* setBetHistory: v1 uses the functional update prev => [entry, ...prev] on
\* the current state, v2 writes [...betHistory, betRecord] from its closure
storeRecord(c, rec) ==
  IF impl = "v1" THEN <<rec>> \o betHistory ELSE Append(c.betHistory, rec)

\* mutant of nextGameState: the loss threshold compared with <, so a balance
\* of exactly 0 leaves the game running
nextGameStateBelowZero(newBalance) ==
  IF newBalance < 0 THEN "lost"
  ELSE IF newBalance >= GOAL_AMOUNT THEN "won"
  ELSE gameState

\* setGameState after the bet; untouched between the two thresholds
nextGameState(newBalance) ==
  IF newBalance <= 0 THEN "lost"
  ELSE IF newBalance >= GOAL_AMOUNT THEN "won"
  ELSE gameState

\* the value placeBet returns once the bet went through
acceptedResult(isWin) == IF impl = "v1" THEN isWin ELSE TRUE

\* mutant of rejectBet: the stake is debited before the balance check
rejectBetDebited(c, eventId, amount, verdict, path) ==
  /\ balance' = IF verdict = "Not enough balance" THEN c.balance - amount ELSE balance
  /\ UNCHANGED <<currentRisk, betHistory, gameState, isProcessingBet, nBets>>
  /\ last' = [op |-> "placeBet", path |-> path, eventId |-> eventId, amount |-> amount,
              accepted |-> FALSE, result |-> FALSE,
              log |-> IF verdict = "silent" THEN "" ELSE verdict,
              isWin |-> FALSE, pre |-> Ledger, seen |-> c]

\* an early return of placeBet: "return false" with no setter called
rejectBet(c, eventId, amount, verdict, path) ==
  /\ UNCHANGED <<balance, currentRisk, betHistory, gameState, isProcessingBet, nBets>>
  /\ last' = [op |-> "placeBet", path |-> path, eventId |-> eventId, amount |-> amount,
              accepted |-> FALSE, result |-> FALSE,
              log |-> IF verdict = "silent" THEN "" ELSE verdict,
              isWin |-> FALSE, pre |-> Ledger, seen |-> c]

\* one call of placeBet(eventId, amount) through the closure c
placeBet(c, eventId, amount, randomValue, idRandom, path) ==
  LET verdict == validate(c, eventId, amount) IN
  IF verdict # "ok"
  THEN rejectBet(c, eventId, amount, verdict, path)
  ELSE LET isWin      == drawIsWin(eventId, randomValue)
           newBalance == c.balance + settlement(eventId, amount, isWin)
           rec        == historyEntry(c, eventId, amount, isWin, idRandom)
       IN /\ balance' = newBalance
          /\ betHistory' = storeRecord(c, rec)
          /\ gameState' = nextGameState(newBalance)
          /\ currentRisk' = IF impl = "v1" THEN calculateRisk(c.balance, eventId, amount, 2)
                                           ELSE currentRisk
          /\ isProcessingBet' = TRUE
          /\ nBets' = nBets + 1
          /\ last' = [op |-> "placeBet", path |-> path, eventId |-> eventId, amount |-> amount,
                      accepted |-> TRUE, result |-> acceptedResult(isWin), log |-> "",
                      isWin |-> isWin, pre |-> Ledger, seen |-> c]

\* mutant of resetGame: setGameState('playing') left out
resetGameKeepsState ==
  /\ balance' = INITIAL_BALANCE
  /\ betHistory' = <<>>
  /\ currentRisk' = DEFAULT_RISK
  /\ last' = [op |-> "resetGame", path |-> "call", eventId |-> "", amount |-> 0,
              accepted |-> TRUE, result |-> FALSE, log |-> "", isWin |-> FALSE,
              pre |-> Ledger, seen |-> Closure]
  /\ UNCHANGED <<impl, gameState, isProcessingBet, pending, nBets, probe, now>>

\* resetGame()
resetGame ==
  /\ balance' = INITIAL_BALANCE
  /\ betHistory' = <<>>
  /\ currentRisk' = DEFAULT_RISK
  /\ gameState' = "playing"
  /\ last' = [op |-> "resetGame", path |-> "call", eventId |-> "", amount |-> 0,
              accepted |-> TRUE, result |-> FALSE, log |-> "", isWin |-> FALSE,
              pre |-> Ledger, seen |-> Closure]
  /\ UNCHANGED <<impl, isProcessingBet, pending, nBets, probe, now>>

(***************************************************************************)
(* Callers and timers                                                      *)
(***************************************************************************)
\* any caller invokes the current render's placeBet(eventId, amount)
PlaceBetCall ==
  /\ nBets < MaxBets
  /\ \E eventId \in EventArgs, amount \in Amounts :
        \E randomValue \in DrawsFor(Closure, eventId, amount),
           idRandom \in IdDrawsFor(Closure, eventId, amount, "call") :
           placeBet(Closure, eventId, amount, randomValue, idRandom, "call")
  /\ UNCHANGED <<impl, pending, probe, now>>

\* BetForm.handleSubmit: its own checks of the selected event and the typed
\* amount, then placeBet(selectedEvent, amount) of the current render
HandleSubmit ==
  /\ nBets < MaxBets
  /\ \E selectedEvent \in FormEvents, amount \in FormAmounts :
     \E randomValue \in DrawsFor(Closure, selectedEvent, amount),
        idRandom \in IdDrawsFor(Closure, selectedEvent, amount, "form") :
        /\ amount > 0
        /\ amount >= betEvents[selectedEvent].minBet
        /\ ~(betEvents[selectedEvent].maxBet # NoMax /\ amount > betEvents[selectedEvent].maxBet)
        /\ amount <= balance
        /\ placeBet(Closure, selectedEvent, amount, randomValue, idRandom, "form")
  /\ UNCHANGED <<impl, pending, probe, now>>

\* BetCard: maxBetForPersona = Math.floor(balance * currentPersona.maxBetPercentage)
maxBetForPersona == (balance * getCurrentPersona(currentRisk).maxBetPercentage10) \div 10

\* BetCard.handlePlaceBet for the card of eventId: its checks, then
\* setTimeout(() => placeBet(event.id, amount), 1000) with this render's placeBet
HandlePlaceBet ==
  /\ Cardinality(pending) < MaxPending
  /\ \E eventId \in CardEvents, amount \in CardAmounts :
        /\ \A p \in pending : p.eventId # eventId
        /\ amount > 0
        /\ amount >= betEvents[eventId].minBet
        /\ ~(betEvents[eventId].maxBet # NoMax /\ amount > betEvents[eventId].maxBet)
        /\ amount <= balance
        /\ amount <= maxBetForPersona
        /\ pending' = pending \cup {[eventId |-> eventId, amount |-> amount, closure |-> Closure]}
        /\ last' = [op |-> "handlePlaceBet", path |-> "card", eventId |-> eventId,
                    amount |-> amount, accepted |-> FALSE, result |-> FALSE, log |-> "",
                    isWin |-> FALSE, pre |-> Ledger, seen |-> Closure]
  /\ UNCHANGED <<impl, balance, currentRisk, betHistory, gameState, isProcessingBet,
                 nBets, probe, now>>

\* the BetCard timer fires: placeBet of the render that scheduled it
BetCardTimer ==
  /\ nBets < MaxBets
  /\ \E p \in pending :
     \E randomValue \in DrawsFor(p.closure, p.eventId, p.amount),
        idRandom \in IdDrawsFor(p.closure, p.eventId, p.amount, "card") :
        /\ placeBet(p.closure, p.eventId, p.amount, randomValue, idRandom, "card")
        /\ pending' = pending \ {p}
  /\ UNCHANGED <<impl, probe, now>>

\* the timer placeBet sets: setIsProcessingBet(false) after one second.  A
\* timer that finds the flag already false changes nothing, so the timers
\* need not be counted
EndProcessing ==
  /\ isProcessingBet
  /\ isProcessingBet' = FALSE
  /\ UNCHANGED <<impl, balance, currentRisk, betHistory, gameState, pending, nBets, last,
                 probe, now>>

\* a millisecond passes: Date.now() and new Date() read one more
Tick ==
  /\ now < MaxClock
  /\ now' = now + 1
  /\ UNCHANGED <<impl, balance, currentRisk, betHistory, gameState, isProcessingBet,
                 pending, nBets, last, probe>>

(***************************************************************************)
(* The scorers on their own: one call on inputs drawn at the start         *)
(***************************************************************************)
ProbeBalances == {-100, 0, 1, 7, 100, 1000, 3000}
ProbeAmounts == {0, 1, 10, 50, 100, 450, 1000, 5000}
\* win probabilities in thousandths, the catalog's and others in (0, 1]
ProbeOdds == {1, 27, 50, 166, 300, 330, 500, 999, 1000}

NoProbe ==
  [kind |-> "none", pc |-> "none", balance |-> 0, amount |-> 0, eventId |-> "",
   p1000 |-> 0, score |-> [num |-> 0, den |-> 1], history |-> <<>>, warnings |-> <<>>]

\* scorer inputs: calculateRisk takes an event id (any balance), the bare
\* formula and the utility scorer take a probability and a balance > 0
ProbeInputs ==
  {[kind |-> "calculateRisk", pc |-> "in", balance |-> b, amount |-> a, eventId |-> e,
    p1000 |-> IF e \in EventIds THEN betEvents[e].winChance1000 ELSE 0,
    score |-> [num |-> 0, den |-> 1], history |-> <<>>, warnings |-> <<>>] :
      b \in ProbeBalances, a \in ProbeAmounts, e \in EventArgs}
  \cup
  {[kind |-> k, pc |-> "in", balance |-> b, amount |-> a, eventId |-> "",
    p1000 |-> p, score |-> [num |-> 0, den |-> 1], history |-> <<>>, warnings |-> <<>>] :
      k \in {"riskFormula", "calculateRiskPercentage"},
      b \in {x \in ProbeBalances : x > 0}, a \in ProbeAmounts, p \in ProbeOdds}

\* calculateRisk(eventId, amount) called by a render whose balance is probe.balance
CalculateRiskCall ==
  /\ probe.kind = "calculateRisk" /\ probe.pc = "in"
  /\ probe' = [probe EXCEPT !.pc = "done",
                 !.score = [num |-> calculateRisk(probe.balance, probe.eventId, probe.amount, 1),
                            den |-> 1]]
  /\ UNCHANGED <<impl, balance, currentRisk, betHistory, gameState, isProcessingBet,
                 pending, nBets, last, now>>

\* the body of calculateRisk past its guard, at a probability of any value
RiskFormulaCall ==
  /\ probe.kind = "riskFormula" /\ probe.pc = "in"
  /\ probe' = [probe EXCEPT !.pc = "done",
                 !.score = [num |-> riskFormula(probe.balance, probe.p1000, probe.amount, 1),
                            den |-> 1]]
  /\ UNCHANGED <<impl, balance, currentRisk, betHistory, gameState, isProcessingBet,
                 pending, nBets, last, now>>

\* calculateRiskPercentage(betAmount, balance, eventProbability)
CalculateRiskPercentageCall ==
  /\ probe.kind = "calculateRiskPercentage" /\ probe.pc = "in"
  /\ probe' = [probe EXCEPT !.pc = "done",
                 !.score = calculateRiskPercentage(probe.amount, probe.balance, probe.p1000)]
  /\ UNCHANGED <<impl, balance, currentRisk, betHistory, gameState, isProcessingBet,
                 pending, nBets, last, now>>

NoCall ==
  [op |-> "init", path |-> "call", eventId |-> "", amount |-> 0, accepted |-> FALSE,
   result |-> FALSE, log |-> "", isWin |-> FALSE,
   pre |-> [balance |-> INITIAL_BALANCE, gameState |-> "playing", betHistory |-> <<>>],
   seen |-> [balance |-> INITIAL_BALANCE, gameState |-> "playing", betHistory |-> <<>>]]

\* GameProvider's useState initial values
InitLedger ==
  /\ balance = INITIAL_BALANCE
  /\ currentRisk = DEFAULT_RISK
  /\ betHistory = <<>>
  /\ gameState = "playing"
  /\ isProcessingBet = FALSE
  /\ pending = {}
  /\ nBets = 0
  /\ last = NoCall
  /\ now = 0

Init ==
  /\ impl \in {"v1", "v2"}
  /\ InitLedger
  /\ probe = NoProbe

\* the components: BetForm, the BetCards, the reset button
Next ==
  \/ HandleSubmit
  \/ HandlePlaceBet
  \/ BetCardTimer
  \/ EndProcessing
  \/ resetGame

Spec == Init /\ [][Next]_vars

\* the context API alone: callers that invoke placeBet and resetGame
\* directly, one call after the other
NextApi ==
  \/ PlaceBetCall
  \/ EndProcessing
  \/ resetGame

SpecApi == Init /\ [][NextApi]_vars

\* the BetForm and the reset button while the clock runs: what the ids and
\* timestamps of the records depend on
NextTimed ==
  \/ Tick
  \/ HandleSubmit
  \/ EndProcessing
  \/ resetGame

SpecTimed == Init /\ [][NextTimed]_vars

InitRisk ==
  /\ impl \in {"v1", "v2"}
  /\ InitLedger
  /\ probe \in ProbeInputs

NextRisk ==
  \/ CalculateRiskCall
  \/ RiskFormulaCall
  \/ CalculateRiskPercentageCall

SpecRisk == InitRisk /\ [][NextRisk]_vars

(***************************************************************************)
(* PatternRecognition: the warnings the component shows for a history      *)
(***************************************************************************)
\* records a probed history is made of (the fields the analytics read);
\* timestamps are in milliseconds, two minutes from one record to the next
ProbeRecords ==
  { [outcome |-> "loss", betAmount |-> 100,  riskPercentage |-> 22, balanceAfter |-> 900,  timestamp |-> 0],
    [outcome |-> "loss", betAmount |-> 200,  riskPercentage |-> 29, balanceAfter |-> 700,  timestamp |-> 120000],
    [outcome |-> "win",  betAmount |-> 100,  riskPercentage |-> 22, balanceAfter |-> 1100, timestamp |-> 240000],
    [outcome |-> "loss", betAmount |-> 1000, riskPercentage |-> 85, balanceAfter |-> 0,    timestamp |-> 360000],
    [outcome |-> "win",  betAmount |-> 300,  riskPercentage |-> 31, balanceAfter |-> 1400, timestamp |-> 480000] }

\* longest history probed
MaxHistory == 5

RECURSIVE HistoriesOfLen(_)
HistoriesOfLen(n) ==
  IF n = 0 THEN {<<>>}
  ELSE {Append(h, r) : h \in HistoriesOfLen(n - 1), r \in ProbeRecords}

ProbeHistories == UNION {HistoriesOfLen(n) : n \in 0..MaxHistory}

\* [...betHistory].sort((a, b) => a.timestamp - a.timestamp): the comparator
\* returns 0 for every pair, and the sort is stable, so the order is kept
sortedBets(h) == h

\* count / total > num/den, false when total is 0 (0/0 is NaN)
RatioAbove(count, total, num, den) == total > 0 /\ count * den > num * total

severityOf(isHigh, isMedium) == IF isHigh THEN "high" ELSE IF isMedium THEN "medium" ELSE "low"

\* indices i of sortedBets with a predecessor: for (let i = 1; i < length; i++)
Followers(h) == 2..Len(h)

chaseLossCount(h) ==
  Cardinality({i \in Followers(h) :
    h[i-1].outcome = "loss" /\ 10 * h[i].betAmount > 13 * h[i-1].betAmount})

highRiskCount(h) == Cardinality({i \in 1..Len(h) : h[i].riskPercentage > 60})

RECURSIVE riskSum(_)
riskSum(h) == IF h = <<>> THEN 0 ELSE Head(h).riskPercentage + riskSum(Tail(h))

\* gaps under two minutes; timestamps are in milliseconds
rapidBetCount(h) ==
  Cardinality({i \in Followers(h) : h[i].timestamp - h[i-1].timestamp < 2 * 60000})

\* Math.abs(betAmount / previous betAmount - 2) < 0.3
martingaleCount(h) ==
  Cardinality({i \in Followers(h) :
    /\ h[i-1].outcome = "loss"
    /\ 17 * h[i-1].betAmount < 10 * h[i].betAmount
    /\ 10 * h[i].betAmount < 23 * h[i-1].betAmount})

\* (betAmount / balanceAfter) * 100 > 20; a balanceAfter of 0 gives Infinity
largeStakeCount(h) ==
  Cardinality({i \in 1..Len(h) :
    \/ h[i].balanceAfter = 0
    \/ 100 * h[i].betAmount > 20 * h[i].balanceAfter})

postWinRiskIncrease(h) ==
  Cardinality({i \in Followers(h) :
    h[i-1].outcome = "win" /\ 10 * h[i].riskPercentage > 13 * h[i-1].riskPercentage})

winCount(h) == Cardinality({i \in 1..Len(h) : h[i].outcome = "win"})

\* detectLossStreaks(): the longest run of consecutive losses
maxLossStreak(h) ==
  LET runs == {j - i + 1 : i \in 1..Len(h), j \in 1..Len(h)} \cap
              {n \in 1..Len(h) : \E i \in 1..(Len(h) - n + 1) :
                 \A k \in i..(i + n - 1) : h[k].outcome = "loss"}
  IN  IF runs = {} THEN 0 ELSE CHOOSE n \in runs : \A m \in runs : m <= n

\* detectPatterns(): the warnings pushed, in order, as <<id, severity>>
detectPatterns(betHistory_) ==
  LET h == sortedBets(betHistory_)
      n == Len(betHistory_)
      chase == chaseLossCount(h)
      high == highRiskCount(betHistory_)
      rsum == riskSum(betHistory_)
      rapid == rapidBetCount(h)
      mart == martingaleCount(h)
      large == largeStakeCount(betHistory_)
      wins == winCount(h)
      tilt == postWinRiskIncrease(h)
      streak == maxLossStreak(h)
      w1 == IF RatioAbove(chase, n - 1, 2, 10)
              THEN << <<"chase-losses", severityOf(RatioAbove(chase, n - 1, 4, 10),
                                                   RatioAbove(chase, n - 1, 3, 10))>> >>
              ELSE <<>>
      w2 == IF RatioAbove(rsum, n, 50, 1) \/ RatioAbove(high, n, 4, 10)
              THEN << <<"high-risk", severityOf(RatioAbove(rsum, n, 70, 1),
                                                RatioAbove(rsum, n, 60, 1))>> >>
              ELSE <<>>
      w3 == IF RatioAbove(rapid, n - 1, 3, 10)
              THEN << <<"rapid-betting", severityOf(RatioAbove(rapid, n - 1, 6, 10),
                                                    RatioAbove(rapid, n - 1, 45, 100))>> >>
              ELSE <<>>
      w4 == IF RatioAbove(mart, n - 1, 15, 100)
              THEN << <<"martingale", severityOf(RatioAbove(mart, n - 1, 3, 10),
                                                 RatioAbove(mart, n - 1, 2, 10))>> >>
              ELSE <<>>
      w5 == IF RatioAbove(large, n, 15, 100)
              THEN << <<"large-stakes", severityOf(RatioAbove(large, n, 3, 10),
                                                   RatioAbove(large, n, 2, 10))>> >>
              ELSE <<>>
      w6 == IF RatioAbove(tilt, wins, 3, 10)
              THEN << <<"overconfidence", severityOf(RatioAbove(tilt, wins, 5, 10),
                                                     RatioAbove(tilt, wins, 4, 10))>> >>
              ELSE <<>>
      w7 == IF streak >= 4
              THEN << <<"loss-streak", severityOf(streak >= 6, streak >= 5)>> >>
              ELSE <<>>
  IN  w1 \o w2 \o w3 \o w4 \o w5 \o w6 \o w7

\* mutant of PatternRecognition: the floor set at 3 bets
PatternRecognitionFloor3(betHistory_) ==
  IF Len(betHistory_) < 3 THEN <<>> ELSE detectPatterns(betHistory_)

\* the component: below 5 bets it returns the "need at least 5 bets" panel
\* and runs no detection, else it lists detectPatterns()
PatternRecognition(betHistory_) ==
  IF Len(betHistory_) < 5 THEN <<>> ELSE detectPatterns(betHistory_)

PatternInputs ==
  {[kind |-> "patterns", pc |-> "in", balance |-> 0, amount |-> 0, eventId |-> "",
    p1000 |-> 0, score |-> [num |-> 0, den |-> 1], history |-> h, warnings |-> <<>>] :
      h \in ProbeHistories}

\* PatternRecognition renders for the probed history
RenderPatternRecognition ==
  /\ probe.kind = "patterns" /\ probe.pc = "in"
  /\ probe' = [probe EXCEPT !.pc = "done", !.warnings = PatternRecognition(probe.history)]
  /\ UNCHANGED <<impl, balance, currentRisk, betHistory, gameState, isProcessingBet,
                 pending, nBets, last, now>>

InitPatterns ==
  /\ impl \in {"v1", "v2"}
  /\ InitLedger
  /\ probe \in PatternInputs

NextPatterns == RenderPatternRecognition

SpecPatterns == InitPatterns /\ [][NextPatterns]_vars

(***************************************************************************)
(* utils/analytics and hooks/useProjection                                 *)
(*                                                                         *)
(* JavaScript numbers are kept as fixed-point integers, rounded down:      *)
(* money in cents, rates in 1/10000, risk levels in 1/100 of a point,      *)
(* ratios and trends in 1/1000, score contributions in 1/1000 of a point.  *)
(* A value that may be NaN or Infinity is a record [k, v] with k one of    *)
(* "num", "nan", "inf"; 0/0 is NaN and x/0 with x > 0 is Infinity, as in   *)
(* IEEE arithmetic, and Math.min and Math.max return NaN on a NaN.         *)
(***************************************************************************)
Num(v) == [k |-> "num", v |-> v]
NaN == [k |-> "nan", v |-> 0]
Infinity == [k |-> "inf", v |-> 0]

Max(a, b) == IF a >= b THEN a ELSE b

\* floor(a * b / c) for c > 0 without forming a * b
MulDiv(a, b, c) == (a \div c) * b + ((a % c) * b) \div c

\* a / b of two non-negative numbers, in units of 1/scale
Quotient(a, b, scale) ==
  IF b = 0 THEN (IF a = 0 THEN NaN ELSE Infinity) ELSE Num(MulDiv(a, scale, b))

RECURSIVE SqrtBetween(_, _, _)
SqrtBetween(n, lo, hi) ==
  IF lo >= hi THEN lo
  ELSE LET mid == (lo + hi + 1) \div 2
       IN  IF mid * mid <= n THEN SqrtBetween(n, mid, hi) ELSE SqrtBetween(n, lo, mid - 1)

\* Math.sqrt, rounded down
MathSqrt(n) == SqrtBetween(n, 0, Min(n, 46340))

RECURSIVE SumOf(_)
SumOf(values) == IF values = <<>> THEN 0 ELSE Head(values) + SumOf(Tail(values))

\* calculateStandardDeviation of finite values, computed on values \div unit
\* (so that the squares stay in range) and given back in the values' unit
stdDevOfNumbers(values, unit) ==
  IF Len(values) <= 1 THEN 0
  ELSE LET mean == SumOf(values) \div Len(values)
           squaredDiffs == [i \in 1..Len(values) |->
                              ((values[i] - mean) \div unit) * ((values[i] - mean) \div unit)]
           \* sumSquaredDiffs / values.length, without forming the sum
           variance == SumOf([i \in 1..Len(values) |-> squaredDiffs[i] \div Len(values)])
                         + SumOf([i \in 1..Len(values) |-> squaredDiffs[i] % Len(values)])
                             \div Len(values)
       IN  unit * MathSqrt(variance)

\* calculateStandardDeviation(values) where values may hold Infinity or NaN:
\* the mean is then Infinity or NaN and a squared difference NaN
calculateStandardDeviation(values, unit) ==
  IF Len(values) <= 1 THEN Num(0)
  ELSE IF \E i \in 1..Len(values) : values[i].k # "num" THEN NaN
  ELSE Num(stdDevOfNumbers([i \in 1..Len(values) |-> values[i].v], unit))

\* calculateValueAtRisk(balanceChanges) at the default confidence 0.95:
\* |sortedChanges[Math.floor(length * (1 - 0.95))]|
calculateValueAtRisk(balanceChanges) ==
  IF Len(balanceChanges) = 0 THEN 0
  ELSE LET index == (Len(balanceChanges) * 5) \div 100
           below(x) == Cardinality({j \in 1..Len(balanceChanges) : balanceChanges[j] < x})
           upTo(x)  == Cardinality({j \in 1..Len(balanceChanges) : balanceChanges[j] <= x})
           at == CHOOSE i \in 1..Len(balanceChanges) :
                   below(balanceChanges[i]) <= index /\ index < upTo(balanceChanges[i])
       IN  IF balanceChanges[at] < 0 THEN -balanceChanges[at] ELSE balanceChanges[at]

\* mapRiskScoreToCategory(riskScore), riskScore in 1/1000 of a point; every
\* comparison with NaN is false
mapRiskScoreToCategory(riskScore) ==
  IF riskScore.k = "nan" THEN "Very High"
  ELSE IF riskScore.v < 20000 THEN "Very Low"
  ELSE IF riskScore.v < 40000 THEN "Low"
  ELSE IF riskScore.v < 60000 THEN "Medium"
  ELSE IF riskScore.v < 80000 THEN "High"
  ELSE "Very High"

\* the (at most) 5 most recent bets: sort by timestamp, newest first (the
\* sort is stable), slice(0, 5)
recentBetsOf(h) ==
  {i \in 1..Len(h) :
     Cardinality({j \in 1..Len(h) :
        \/ h[j].timestamp > h[i].timestamp
        \/ (h[j].timestamp = h[i].timestamp /\ j < i)}) < 5}

\* (part - whole) / whole scaled by weight/1000, in 1/1000; 0 when whole is 0
trendOf(part, whole, weight) ==
  IF whole > 0 THEN MulDiv(part - whole, weight, whole) ELSE 0

\* calculateUserMetrics(betHistory): the metrics useProjection reads
\* (bettingFrequency and avgBetSizeRatio are not read by it)
calculateUserMetrics(h) ==
  IF Len(h) = 0
    THEN [winRate |-> 0, avgBetSize |-> 0, avgRiskLevel |-> 0, winRateTrend |-> 0,
          betSizeTrend |-> 0, riskTrend |-> 0, betSizeStdDev |-> Num(0)]
  ELSE
    LET all == 1..Len(h)
        recent == recentBetsOf(h)
        winsIn(S) == Cardinality({i \in S : h[i].outcome = "win"})
        betsOf(S) == SumOf([k \in 1..Len(h) |-> IF k \in S THEN 100 * h[k].betAmount ELSE 0])
        risksOf(S) == SumOf([k \in 1..Len(h) |-> IF k \in S THEN 100 * h[k].riskPercentage ELSE 0])
        winRate == (10000 * winsIn(all)) \div Len(h)
        avgBetSize == betsOf(all) \div Len(h)
        avgRiskLevel == risksOf(all) \div Len(h)
        recentWinRate == (10000 * winsIn(recent)) \div Cardinality(recent)
        recentAvgBetSize == betsOf(recent) \div Cardinality(recent)
        recentRiskLevel == risksOf(recent) \div Cardinality(recent)
        betSizeRatios == [i \in all |-> Quotient(h[i].betAmount, h[i].balanceAfter, 10000)]
    IN  [winRate |-> winRate, avgBetSize |-> avgBetSize, avgRiskLevel |-> avgRiskLevel,
         winRateTrend |-> (recentWinRate - winRate) \div 2,
         betSizeTrend |-> trendOf(recentAvgBetSize, avgBetSize, 300),
         riskTrend |-> trendOf(recentRiskLevel, avgRiskLevel, 200),
         betSizeStdDev |-> calculateStandardDeviation(betSizeRatios, 1)]

\* Math.min(cap, x) and Math.max(0, x) on a value that may be NaN
MathMin(cap, x) == IF x.k = "nan" THEN NaN ELSE IF x.k = "inf" THEN Num(cap) ELSE Num(Min(cap, x.v))
MathMax0(x) == IF x.k = "num" THEN Num(Max(0, x.v)) ELSE x

Plus(x, y) == IF x.k = "nan" \/ y.k = "nan" THEN NaN ELSE Num(x.v + y.v)

\* weight * (1 - part/whole) in 1/1000 of a point; part/whole counts as 0
\* when whole is not positive
shortfallScore(weight, part, whole) ==
  LET ratio == IF whole > 0 THEN MulDiv(part, 1000, whole) ELSE 0
  IN  MathMax0(MathMin(1000 * weight, Num(weight * (1000 - ratio))))

\* weight * x, x in 1/scale, in 1/1000 of a point
Times(weight, x, scale) == IF x.k = "num" THEN Num((weight * 1000 * x.v) \div scale) ELSE x

\* calculateBankruptcyRiskScore: the five capped scores and their sum
calculateBankruptcyRiskScore(finalBalance, minBalance, initialBalance, balanceVolatility, valueAtRisk, avgBalance, betSizeStdDev) ==
  LET finalBalanceScore == shortfallScore(30, finalBalance, initialBalance)
      minBalanceScore == shortfallScore(25, minBalance, initialBalance)
      volatilityScore == MathMin(20000, Times(20, balanceVolatility, 1000))
      varRatio == IF avgBalance > 0 THEN MulDiv(valueAtRisk, 1000, avgBalance) ELSE 0
      varScore == MathMin(15000, Times(15, Num(varRatio), 1000))
      betSizingScore == MathMin(10000, Times(50, betSizeStdDev, 10000))
      riskScore == Plus(Plus(Plus(Plus(finalBalanceScore, minBalanceScore),
                                  volatilityScore), varScore), betSizingScore)
  IN  [riskScore |-> riskScore,
       riskCategory |-> mapRiskScoreToCategory(riskScore),
       breakdown |-> [finalBalanceContribution |-> finalBalanceScore,
                      minBalanceContribution |-> minBalanceScore,
                      volatilityContribution |-> volatilityScore,
                      varContribution |-> varScore,
                      betSizingContribution |-> betSizingScore]]

\* useMemo's result without enough data
null == [k |-> "null"]

\* a floor one record too high
hasEnoughDataAbove5(betHistory_) == Len(betHistory_) > 5

\* hasEnoughData = betHistory.length >= 5
hasEnoughData(betHistory_) == Len(betHistory_) >= 5

\* ProjectionPeriod = '10' | '25' | '50'
ProjectionPeriods == {10, 25, 50}
\* the Math.random() behind randomVariation(), in thousandths; one run of
\* the simulation draws the same value at every call
VariationDraws == {0, 500}
\* simulated bets that win in one run of the simulation, unless every bet
\* of the run so far has won
MaxSimWins == 1
\* balances the projection starts from, in dollars
ProjectionBalances == {0, 1000}

\* histories the projection is asked for: five records, a given record
\* alternating with each of the probe records, and a history of four
ProjectionHistories ==
  LET first == CHOOSE r \in ProbeRecords : r.balanceAfter = 900
  IN  {[i \in 1..5 |-> IF i % 2 = 1 THEN first ELSE r] : r \in ProbeRecords}
        \cup {[i \in 1..4 |-> first]}

ProjectionInputs ==
  {[kind |-> "projection", pc |-> "in", history |-> h, balance |-> b, period |-> n,
    variation |-> v, step |-> 0, projectedBalance |-> 0, currentWinRate |-> 0,
    currentBetSize |-> 0, currentRiskLevel |-> 0, totalWins |-> 0,
    balanceHistory |-> <<>>, metrics |-> calculateUserMetrics(<<>>),
    projections |-> null] :
      h \in ProjectionHistories, b \in ProjectionBalances, n \in ProjectionPeriods,
      v \in VariationDraws}

\* randomVariation() = Math.random() * 0.2 - 0.1, in 1/1000
randomVariation(draw) == draw \div 5 - 100

\* the balance left unfloored
nextProjectedBalanceNoFloor(projectedBalance, currentBetSize, currentRiskLevel, isWin) ==
  LET avgReturn == 10000 + currentRiskLevel
  IN  IF isWin
        THEN projectedBalance + MulDiv(currentBetSize, (avgReturn * 8) \div 10, 10000)
        ELSE projectedBalance - currentBetSize

\* the balance after one simulated bet: avgReturn = 1 + currentRiskLevel / 100,
\* += currentBetSize * avgReturn * 0.8 on a win, -= currentBetSize on a loss,
\* then Math.max(0, projectedBalance)
nextProjectedBalance(projectedBalance, currentBetSize, currentRiskLevel, isWin) ==
  LET avgReturn == 10000 + currentRiskLevel
  IN  Max(0, IF isWin
               THEN projectedBalance + MulDiv(currentBetSize, (avgReturn * 8) \div 10, 10000)
               ELSE projectedBalance - currentBetSize)

\* useProjection's useMemo, up to the simulation loop: null without 5 bets
StartProjection ==
  /\ probe.kind = "projection" /\ probe.pc = "in"
  /\ LET metrics == calculateUserMetrics(probe.history)
     IN  probe' = IF hasEnoughData(probe.history)
                    THEN [probe EXCEPT !.pc = "loop",
                            !.metrics = metrics,
                            !.projectedBalance = 100 * probe.balance,
                            !.currentWinRate = metrics.winRate,
                            !.currentBetSize = metrics.avgBetSize,
                            !.currentRiskLevel = metrics.avgRiskLevel,
                            !.balanceHistory = <<100 * probe.balance>>]
                    ELSE [probe EXCEPT !.pc = "done"]
  /\ UNCHANGED <<impl, balance, currentRisk, betHistory, gameState, isProcessingBet,
                 pending, nBets, last, now>>

\* one pass of the Monte Carlo loop
SimulateBet ==
  /\ probe.kind = "projection" /\ probe.pc = "loop"
  /\ probe.step < probe.period
  /\ \E randomValue \in Draws :
       LET metrics == probe.metrics
           numBets == probe.period
           rv == randomVariation(probe.variation)
           currentWinRate == Max(100, Min(9500,
              probe.currentWinRate + metrics.winRateTrend \div numBets + (rv * 5) \div 10))
           currentBetSize == Max(1000,
              MulDiv(probe.currentBetSize, 1000 + metrics.betSizeTrend \div numBets + rv \div 10, 1000))
           currentRiskLevel == Max(500, Min(9500,
              probe.currentRiskLevel + metrics.riskTrend \div (10 * numBets) + rv \div 10))
           isWin == 10 * randomValue < currentWinRate
           projectedBalance ==
             nextProjectedBalance(probe.projectedBalance, currentBetSize, currentRiskLevel, isWin)
       IN  /\ isWin => (probe.totalWins < MaxSimWins \/ probe.totalWins = probe.step)
           /\ probe' = [probe EXCEPT !.step = probe.step + 1,
                           !.currentWinRate = currentWinRate,
                           !.currentBetSize = currentBetSize,
                           !.currentRiskLevel = currentRiskLevel,
                           !.totalWins = IF isWin THEN probe.totalWins + 1 ELSE probe.totalWins,
                           !.projectedBalance = projectedBalance,
                           !.balanceHistory = Append(probe.balanceHistory, projectedBalance)]
  /\ UNCHANGED <<impl, balance, currentRisk, betHistory, gameState, isProcessingBet,
                 pending, nBets, last, now>>

\* the statistics and the risk assessment once the loop is over
FinishProjection ==
  /\ probe.kind = "projection" /\ probe.pc = "loop"
  /\ probe.step = probe.period
  /\ LET metrics == probe.metrics
         balanceHistory == probe.balanceHistory
         avgBalance == SumOf(balanceHistory) \div Len(balanceHistory)
         balanceStdDev == stdDevOfNumbers(balanceHistory, 100)
         balanceChanges == [i \in 1..(Len(balanceHistory) - 1) |->
                              balanceHistory[i + 1] - balanceHistory[i]]
         valueAtRisk == calculateValueAtRisk(balanceChanges)
         minBalance == CHOOSE x \in {balanceHistory[i] : i \in 1..Len(balanceHistory)} :
                         \A i \in 1..Len(balanceHistory) : x <= balanceHistory[i]
         maxBalance == CHOOSE x \in {balanceHistory[i] : i \in 1..Len(balanceHistory)} :
                         \A i \in 1..Len(balanceHistory) : x >= balanceHistory[i]
         balanceVolatility == Quotient(balanceStdDev, avgBalance, 1000)
         riskAssessment == calculateBankruptcyRiskScore(probe.projectedBalance, minBalance,
                             100 * probe.balance, balanceVolatility, valueAtRisk, avgBalance,
                             metrics.betSizeStdDev)
     IN  probe' = [probe EXCEPT !.pc = "done",
                     !.projections =
                        [finalBalance |-> probe.projectedBalance,
                         maxBalance |-> maxBalance,
                         minBalance |-> minBalance,
                         bankruptcyRiskScore |-> riskAssessment.riskScore,
                         bankruptcyRiskCategory |-> riskAssessment.riskCategory,
                         balanceVolatility |-> balanceVolatility,
                         valueAtRisk |-> valueAtRisk,
                         riskBreakdown |-> riskAssessment.breakdown]]
  /\ UNCHANGED <<impl, balance, currentRisk, betHistory, gameState, isProcessingBet,
                 pending, nBets, last, now>>

InitProjection ==
  /\ impl \in {"v1", "v2"}
  /\ InitLedger
  /\ probe \in ProjectionInputs

NextProjection ==
  \/ StartProjection
  \/ SimulateBet
  \/ FinishProjection

SpecProjection == InitProjection /\ [][NextProjection]_vars

(***************************************************************************)
(* ComparativeAnalytics: the game diversification index                    *)
(*                                                                         *)
(* The index is kept as an exact fraction num/den; of a bet only its       *)
(* eventId is read.                                                        *)
(***************************************************************************)
DiversificationHistories ==
  UNION {[1..n -> {[eventId |-> e] : e \in EventIds}] : n \in 0..MaxHistory}

\* gameCounts: the number of bets of each event that has a bet
gameCounts(betHistory_) ==
  [e \in {betHistory_[i].eventId : i \in 1..Len(betHistory_)} |->
     Cardinality({i \in 1..Len(betHistory_) : betHistory_[i].eventId = e})]

\* the key of counts that [...values].sort((a, b) => a - b) puts at
\* position k (1-based); equal values in either order give the same sums
SortedKey(counts, k) ==
  CHOOSE e \in DOMAIN counts :
    /\ Cardinality({f \in DOMAIN counts : counts[f] < counts[e]}) < k
    /\ k <= Cardinality({f \in DOMAIN counts : counts[f] <= counts[e]})

\* calculateGiniCoefficient(values) for values = count / total:
\*   (2 * sumNumerator) / (n * sumDenominator) - (n + 1) / n
\* with every value multiplied by total, which the quotient does not see
calculateGiniCoefficient(counts) ==
  LET n == Cardinality(DOMAIN counts)
      sumNumerator == SumOf([k \in 1..n |-> counts[SortedKey(counts, k)] * k])
      sumDenominator == SumOf([k \in 1..n |-> counts[SortedKey(counts, k)]])
  IN  IF n = 0 \/ sumDenominator = 0 THEN [num |-> 0, den |-> 1]
      ELSE [num |-> 2 * sumNumerator - (n + 1) * sumDenominator, den |-> n * sumDenominator]

\* diversificationIndex = 1 - giniCoefficient
diversificationIndex(betHistory_) ==
  LET giniCoefficient == calculateGiniCoefficient(gameCounts(betHistory_))
  IN  [num |-> giniCoefficient.den - giniCoefficient.num, den |-> giniCoefficient.den]

DiversificationInputs ==
  {[kind |-> "diversification", pc |-> "in", history |-> h, diversificationIndex |-> null] :
     h \in DiversificationHistories}

\* ComparativeAnalytics renders: below 5 bets the "need at least 5 bets"
\* panel and no metrics, else calculateMetrics()
RenderComparativeAnalytics ==
  /\ probe.kind = "diversification" /\ probe.pc = "in"
  /\ probe' = [probe EXCEPT !.pc = "done",
                  !.diversificationIndex =
                     IF Len(probe.history) < 5 THEN null
                     ELSE diversificationIndex(probe.history)]
  /\ UNCHANGED <<impl, balance, currentRisk, betHistory, gameState, isProcessingBet,
                 pending, nBets, last, now>>

InitDiversification ==
  /\ impl \in {"v1", "v2"}
  /\ InitLedger
  /\ probe \in DiversificationInputs

NextDiversification == RenderComparativeAnalytics

SpecDiversification == InitDiversification /\ [][NextDiversification]_vars

(***************************************************************************)
(* utils/betting: the persona helpers on their own                         *)
(***************************************************************************)
\* the first threshold compared with <, so a risk of exactly 30 moves up
determinePersonaBelow30(riskPercentage) ==
  IF riskPercentage < 30 THEN "Baby Betsy"
  ELSE IF riskPercentage <= 70 THEN "Midlife Crisis Mike"
  ELSE "YOLO Yolanda"

\* determinePersona(riskPercentage): the persona's name
determinePersona(riskPercentage) ==
  IF riskPercentage <= 30 THEN "Baby Betsy"
  ELSE IF riskPercentage <= 70 THEN "Midlife Crisis Mike"
  ELSE "YOLO Yolanda"

\* calculateMaxBet(balance, riskPercentage), in tenths of a dollar:
\* balance * 0.1, balance * 0.3 or balance
calculateMaxBet(bal, riskPercentage) ==
  IF riskPercentage <= 30 THEN bal * 1
  ELSE IF riskPercentage <= 70 THEN bal * 3
  ELSE bal * 10

PersonaInputs ==
  {[kind |-> "persona", pc |-> "in", balance |-> b, risk |-> r, persona |-> "", maxBet |-> 0] :
     b \in {x \in ProbeBalances : x >= 0}, r \in 0..100}

\* a caller asks the helpers for the persona and the cap of a risk value
DeterminePersonaCall ==
  /\ probe.kind = "persona" /\ probe.pc = "in"
  /\ probe' = [probe EXCEPT !.pc = "done",
                  !.persona = determinePersona(probe.risk),
                  !.maxBet = calculateMaxBet(probe.balance, probe.risk)]
  /\ UNCHANGED <<impl, balance, currentRisk, betHistory, gameState, isProcessingBet,
                 pending, nBets, last, now>>

InitPersona ==
  /\ impl \in {"v1", "v2"}
  /\ InitLedger
  /\ probe \in PersonaInputs

NextPersona == DeterminePersonaCall

SpecPersona == InitPersona /\ [][NextPersona]_vars

(***************************************************************************)
(* Claims                                                                  *)
(***************************************************************************)
IsPlaceBet == last.op = "placeBet"
Accepted == IsPlaceBet /\ last.accepted
Rejected == IsPlaceBet /\ ~last.accepted

\* the record of the wager just accepted: v1 keeps the newest record first,
\* v2 keeps it last
NewRecord == IF impl = "v1" THEN Head(betHistory) ELSE betHistory[Len(betHistory)]

\* amount is outside the limits of the catalog event eventId
OutsideLimits(eventId, amount) ==
  \/ amount < betEvents[eventId].minBet
  \/ (betEvents[eventId].maxBet # NoMax /\ amount > betEvents[eventId].maxBet)

\* the cap of the persona classified from the risk score of the candidate
\* wager itself: floor(balance * maxBetFraction)
CandidateCap(bal, eventId, amount) ==
  (bal * getCurrentPersona(calculateRisk(bal, eventId, amount, 1)).maxBetPercentage10) \div 10

\* C1 - Wager atomicity: a placeBet call that is rejected leaves balance,
\* history (length and contents) and game state exactly as they were before
\* the call.
C1_WagerAtomicity == Rejected => Ledger = last.pre

C1_Witness ==
  /\ Rejected
  /\ last.log = "Not enough balance"
  /\ Len(betHistory) > 0
  /\ Ledger = last.pre

C3_TerminalTransition ==
  /\ (Accepted /\ balance <= 0) => gameState = "lost"
  /\ (Accepted /\ balance >= 10000) => gameState = "won"
  /\ (IsPlaceBet /\ last.pre.gameState # "playing") =>
        (~last.accepted /\ betHistory = last.pre.betHistory)

\* C4 - Reset: resetGame yields balance = 1000, history = [] and state =
\* Playing from any state; a second resetGame changes nothing; and a wager
\* within the event's limits and the balance placed next is accepted.
C4_ResetState ==
  last.op = "resetGame" => (balance = 1000 /\ betHistory = <<>> /\ gameState = "playing")

C4_ResetStep ==
  /\ (last.op = "resetGame" /\ last'.op = "resetGame") =>
        (balance' = balance /\ betHistory' = betHistory /\ gameState' = gameState
           /\ currentRisk' = currentRisk)
  /\ (last.op = "resetGame" /\ last'.op = "placeBet" /\ last'.eventId \in EventIds
        /\ ~OutsideLimits(last'.eventId, last'.amount) /\ last'.amount <= 1000) =>
        last'.accepted

C4_Reset == [](C4_ResetState) /\ [][C4_ResetStep]_vars

C4_Witness ==
  /\ last.op = "resetGame"
  /\ last.pre.gameState = "lost"
  /\ last.pre.balance = 0
  /\ Len(last.pre.betHistory) > 0
  /\ balance = 1000 /\ betHistory = <<>> /\ gameState = "playing"

\* C5 - Persona cap: every accepted wager satisfies
\* amount <= floor(balanceBefore * maxBetFraction) of the persona classified
\* from the risk score of that same candidate wager.
C5_PersonaCap ==
  Accepted => last.amount <= CandidateCap(last.pre.balance, last.eventId, last.amount)

\* the first check a call violates, in the order the claim gives
FirstViolated(c, eventId, amount) ==
  IF c.gameState # "playing" THEN "GameOver"
  ELSE IF eventId \notin EventIds THEN "UnknownEvent"
  ELSE IF OutsideLimits(eventId, amount) THEN "BetLimit"
  ELSE IF amount > c.balance THEN "InsufficientBalance"
  ELSE IF amount > CandidateCap(c.balance, eventId, amount) THEN "PersonaLimit"
  ELSE "none"

\* what placeBet can report to its caller for a call through c: the value
\* it returns and the console message
Reports(c, eventId, amount) ==
  IF validate(c, eventId, amount) # "ok"
    THEN {<<FALSE, IF validate(c, eventId, amount) = "silent" THEN "" ELSE validate(c, eventId, amount)>>}
    ELSE {<<acceptedResult(drawIsWin(eventId, r)), "">> : r \in Draws}

\* C6 - Validation order: the checks are evaluated in the order state,
\* event, limits, balance, persona cap and the reported outcome identifies
\* the first violated check: two calls (on the current ledger or the ledger
\* before the last operation) whose first violated checks differ are never
\* reported alike.
C6_ValidationOrder ==
  \A c1 \in {Closure, last.pre}, c2 \in {Closure, last.pre} :
    \A e1 \in EventArgs, e2 \in EventArgs, a1 \in Amounts, a2 \in Amounts :
      ( /\ FirstViolated(c1, e1, a1) # "none"
        /\ FirstViolated(c2, e2, a2) # "none"
        /\ FirstViolated(c1, e1, a1) # FirstViolated(c2, e2, a2) )
      => Reports(c1, e1, a1) \cap Reports(c2, e2, a2) = {}

\* C7 - Bet limits: for every catalog event a wager below minBet, or above a
\* set maxBet, is rejected and creates no record; a wager inside the limits
\* is never rejected for limit reasons.
C7_BetLimits ==
  (IsPlaceBet /\ last.eventId \in EventIds) =>
    /\ OutsideLimits(last.eventId, last.amount) =>
          (~last.accepted /\ betHistory = last.pre.betHistory)
    /\ ~OutsideLimits(last.eventId, last.amount) => last.log # "Invalid bet amount"

C7_Witness ==
  /\ Rejected
  /\ last.eventId = "roulette"
  /\ last.amount = 50
  /\ last.pre.gameState = "playing"
  /\ last.log = "Invalid bet amount"
  /\ betHistory = last.pre.betHistory

\* C8 - placeBet returns true if and only if the wager was accepted and a
\* record was added to history, and false if and only if it was rejected.
C8_ResultTellsPlaced ==
  IsPlaceBet =>
    /\ last.result <=> last.accepted
    /\ last.accepted <=> (Len(betHistory) = Len(last.pre.betHistory) + 1)

\* C9 - Risk score bounds: for every balance > 0, amount >= 0 and
\* winProbability in (0,1] a risk scorer returns an integer in [0,100].
C9_RiskScoreBounds ==
  (probe.pc = "done" /\ probe.balance > 0) =>
    /\ probe.score.num % probe.score.den = 0
    /\ 0 <= probe.score.num
    /\ probe.score.num <= 100 * probe.score.den

\* s is n/d rounded to the nearest integer, halves upward (d > 0)
IsRounded(s, n, d) == 2 * d * s <= 2 * n + d /\ 2 * n + d < 2 * d * (s + 1)

Clamp(s) == IF s < 0 THEN 0 ELSE IF s > 100 THEN 100 ELSE s

\* C10 - Risk score formula and guard: for balance > 0 the score is
\* round(50*min(amount/balance,1) + 30*(1-winProbability) + 20*min(amount/balance,1))
\* clamped to [0,100]; for balance <= 0 it is 0; for amount = 0 it is
\* round(30*(1-winProbability)).
C10_RiskFormula ==
  ( /\ probe.pc = "done"
    /\ \/ probe.kind = "riskFormula"
       \/ (probe.kind = "calculateRisk" /\ probe.eventId \in EventIds) ) =>
    LET staked == IF probe.amount <= probe.balance THEN probe.amount ELSE probe.balance
        n == 50 * 100 * staked + 3 * (1000 - probe.p1000) * probe.balance + 20 * 100 * staked
        d == 100 * probe.balance
    IN  /\ probe.balance > 0 =>
              \E s \in 0..200 : IsRounded(s, n, d) /\ probe.score.num = Clamp(s)
        /\ probe.balance <= 0 => probe.score.num = 0
        /\ (probe.balance > 0 /\ probe.amount = 0) =>
              IsRounded(probe.score.num, 3 * (1000 - probe.p1000), 100)
        /\ probe.score.den = 1

C10_Witness ==
  /\ probe.pc = "done"
  /\ probe.kind = "calculateRisk"
  /\ probe.eventId = "coin-flip"
  /\ probe.balance = 1000
  /\ probe.amount = 450
  /\ probe.score = [num |-> 47, den |-> 1]

\* the score calculateRisk gives the probed event (or the bare formula the
\* probed probability) for a stake of amount dollars at the probed balance
ProbeScore(amount) ==
  IF probe.kind = "calculateRisk"
    THEN calculateRisk(probe.balance, probe.eventId, amount, 1)
    ELSE riskFormula(probe.balance, probe.p1000, amount, 1)

\* C11 - Risk score monotonicity: for a fixed event (fixed win probability)
\* and a fixed balance > 0, for all amounts a1 <= a2 <= balance the score of
\* a1 is at most the score of a2.
C11_RiskMonotone ==
  ( /\ probe.pc = "done"
    /\ probe.kind \in {"calculateRisk", "riskFormula"}
    /\ probe.balance > 0
    /\ probe.amount <= probe.balance ) =>
    \A a1 \in 0..probe.amount : ProbeScore(a1) <= probe.score.num

C11_Witness ==
  /\ probe.pc = "done"
  /\ probe.kind = "calculateRisk"
  /\ probe.eventId = "roulette"
  /\ probe.balance = 1000
  /\ probe.amount = 1000
  /\ probe.score.num = 99
  /\ ProbeScore(100) = 36
  /\ ProbeScore(450) = 61

\* the catalog personas whose riskRange contains risk
PersonasOf(risk) ==
  {i \in 1..Len(personas) :
     personas[i].riskRange.min <= risk /\ risk <= personas[i].riskRange.max}

\* C12 - Persona partition: for every integer risk value 0..100 exactly one
\* persona of the catalog has riskRange.min <= risk <= riskRange.max (the
\* ranges are [0,30], [31,70], [71,100]), so the classifier's fallback to the
\* most conservative persona is never taken for a scorer output.
C12_PersonaPartition ==
  /\ \A risk \in 0..100 :
        /\ Cardinality(PersonasOf(risk)) = 1
        /\ getCurrentPersona(risk) = personas[CHOOSE i \in 1..Len(personas) : i \in PersonasOf(risk)]
  /\ [i \in 1..Len(personas) |-> <<personas[i].riskRange.min, personas[i].riskRange.max>>]
        = << <<0, 30>>, <<31, 70>>, <<71, 100>> >>
  /\ (probe.pc = "done" /\ probe.kind \in {"calculateRisk", "riskFormula"}) =>
        /\ PersonasOf(probe.score.num) # {}
        /\ getCurrentPersona(probe.score.num).riskRange.min <= probe.score.num
        /\ probe.score.num <= getCurrentPersona(probe.score.num).riskRange.max

C12_Witness ==
  /\ probe.pc = "done"
  /\ probe.kind = "calculateRisk"
  /\ probe.score.num = 31
  /\ getCurrentPersona(probe.score.num).id = "midlife-crisis-mike"

\* C13 - History is append-only and chronological: an accepted placeBet adds
\* exactly one record, placed after all existing records, and never modifies,
\* reorders or drops an existing record; the stored sequence is
\* non-decreasing in timestamp from first to last element.
C13_AppendOnly ==
  /\ Accepted =>
        /\ Len(betHistory) = Len(last.pre.betHistory) + 1
        /\ SubSeq(betHistory, 1, Len(last.pre.betHistory)) = last.pre.betHistory
  /\ \A i \in 1..Len(betHistory), j \in 1..Len(betHistory) :
        i < j => betHistory[i].timestamp <= betHistory[j].timestamp

\* the part of C13 that revision v1 keeps as well: one record more, and the
\* earlier records all still there, in their order
C13_NothingDropped ==
  Accepted =>
    /\ Len(betHistory) = Len(last.pre.betHistory) + 1
    /\ \/ SubSeq(betHistory, 1, Len(last.pre.betHistory)) = last.pre.betHistory
       \/ Tail(betHistory) = last.pre.betHistory

\* the records in the order they were created: v1 stores the newest first
Created ==
  IF impl = "v1"
    THEN [i \in 1..Len(betHistory) |-> betHistory[Len(betHistory) + 1 - i]]
    ELSE betHistory

\* ten times the settlement a record stands for, from its own fields
RecordSettlement10(rec) ==
  IF rec.outcome = "win"
    THEN rec.betAmount * (betEvents[rec.eventId].mult10 - 10)
    ELSE -10 * rec.betAmount

StateOf(bal) ==
  IF bal <= 0 THEN "lost" ELSE IF bal >= 10000 THEN "won" ELSE "playing"

C15_StateOfBalance == gameState = StateOf(balance)

\* Won and Lost are left by resetGame only
C15_TerminalStays ==
  (gameState \in {"won", "lost"} /\ gameState' # gameState) => last'.op = "resetGame"

C16_BalanceNonNegative ==
  /\ balance >= 0
  /\ \A i \in 1..Len(betHistory) : betHistory[i].balanceAfter >= 0

C16_Witness ==
  /\ Accepted
  /\ last.amount = last.pre.balance
  /\ ~last.isWin
  /\ balance = 0
  /\ Len(last.pre.betHistory) > 0

\* currentPersona = getCurrentPersona(), computed from currentRisk on every render
currentPersona == getCurrentPersona(currentRisk)

\* C17 - The active persona is derived from the most recent risk percentage:
\* after every accepted wager currentPersona is the persona whose range
\* contains the riskPercentage recorded on that wager's record, and the most
\* conservative persona after reset.
C17_PersonaFromLastRisk ==
  /\ Accepted =>
        /\ currentPersona.riskRange.min <= NewRecord.riskPercentage
        /\ NewRecord.riskPercentage <= currentPersona.riskRange.max
  /\ last.op = "resetGame" => currentPersona = personas[1]

\* C18 - BetRecord ids are unique: in every reachable state all records in
\* history have pairwise distinct ids, including two wagers accepted within
\* the same clock millisecond.
C18_UniqueIds ==
  \A i \in 1..Len(betHistory), j \in 1..Len(betHistory) :
    i # j => betHistory[i].id # betHistory[j].id

\* what both revisions do keep: records made at different clock readings
\* have different ids
C18_DistinctAcrossMilliseconds ==
  \A i \in 1..Len(betHistory), j \in 1..Len(betHistory) :
    (i # j /\ betHistory[i].timestamp # betHistory[j].timestamp)
      => betHistory[i].id # betHistory[j].id

\* C19 - Pattern detector floor: for every history with fewer than 5 records
\* the pattern detector produces no warnings at all, whatever the records
\* contain.
C19_PatternFloor ==
  (probe.kind = "patterns" /\ probe.pc = "done" /\ Len(probe.history) < 5)
    => probe.warnings = <<>>

\* a history of 4 records on which the detection itself would warn
C19_Witness ==
  /\ probe.kind = "patterns" /\ probe.pc = "done"
  /\ Len(probe.history) = 4
  /\ \A i \in 1..4 : probe.history[i].outcome = "loss"
  /\ Len(detectPatterns(probe.history)) >= 3
  /\ probe.warnings = <<>>

\* x is a defined number between 0 and cap points
Within(x, cap) == x.k = "num" /\ 0 <= x.v /\ x.v <= 1000 * cap

\* a projection was made (with fewer than 5 bets the hook returns null)
Projected == probe.kind = "projection" /\ probe.pc = "done" /\ Len(probe.history) >= 5

\* C20 - Projection breakdown: for every history of length >= 5, every
\* current balance >= 0 (0 included) and every horizon in {10,25,50}, the
\* five riskBreakdown components lie in [0,30], [0,25], [0,20], [0,15] and
\* [0,10], their sum equals bankruptcyRiskScore, and bankruptcyRiskScore is
\* a defined number in [0,100].
C20_ProjectionBreakdown ==
  Projected =>
    LET b == probe.projections.riskBreakdown
        score == probe.projections.bankruptcyRiskScore
    IN  /\ Within(b.finalBalanceContribution, 30)
        /\ Within(b.minBalanceContribution, 25)
        /\ Within(b.volatilityContribution, 20)
        /\ Within(b.varContribution, 15)
        /\ Within(b.betSizingContribution, 10)
        /\ Within(score, 100)
        /\ score.v = b.finalBalanceContribution.v + b.minBalanceContribution.v
                       + b.volatilityContribution.v + b.varContribution.v
                       + b.betSizingContribution.v

\* what the code does keep: the claim holds whenever no record of the
\* history has balanceAfter = 0 and the simulated balances are not all 0
C20_BreakdownWhenDefined ==
  ( /\ Projected
    /\ \A i \in 1..Len(probe.history) : probe.history[i].balanceAfter > 0
    /\ \E i \in 1..Len(probe.balanceHistory) : probe.balanceHistory[i] > 0 )
  => C20_ProjectionBreakdown


\* C21 - Projection sentinel: the projection engine returns null
\* (hasEnoughData = false) if and only if the history has fewer than 5
\* records; for every history of length >= 5 it returns a non-null result
\* and never fails: until it is done the computation is at its start, in
\* the loop with a bet left to simulate, or at the statistics with the
\* whole trajectory at hand.
C21_ProjectionSentinel ==
  probe.kind = "projection" =>
    /\ probe.pc = "done" =>
         /\ (probe.projections = null) <=> (Len(probe.history) < 5)
         /\ (probe.projections = null) <=> ~hasEnoughData(probe.history)
         /\ probe.projections # null =>
              DOMAIN probe.projections =
                {"finalBalance", "maxBalance", "minBalance", "bankruptcyRiskScore",
                 "bankruptcyRiskCategory", "balanceVolatility", "valueAtRisk",
                 "riskBreakdown"}
    /\ probe.pc # "done" =>
         \/ probe.pc = "in"
         \/ probe.pc = "loop" /\ probe.step < probe.period
                              /\ Len(probe.balanceHistory) = probe.step + 1
         \/ probe.pc = "loop" /\ probe.step = probe.period
                              /\ Len(probe.balanceHistory) = probe.period + 1

\* a history of exactly 5 records got its projection
C21_Witness ==
  /\ probe.kind = "projection" /\ probe.pc = "done"
  /\ Len(probe.history) = 5
  /\ probe.projections # null
  /\ probe.step = probe.period

\* a history as the ledger of the revision stores it: v1 puts each new
\* record first, v2 last
StoredByLedger(h) ==
  \A i \in 2..Len(h) :
    IF impl = "v1" THEN h[i-1].timestamp >= h[i].timestamp
                   ELSE h[i-1].timestamp <= h[i].timestamp

\* the records of h from the earliest to the latest timestamp
Chronological(h) ==
  LET before(i) == Cardinality({j \in 1..Len(h) :
                      \/ h[j].timestamp < h[i].timestamp
                      \/ (h[j].timestamp = h[i].timestamp /\ j < i)})
  IN  [k \in 1..Len(h) |-> h[CHOOSE i \in 1..Len(h) : before(i) = k - 1]]

\* the severities the panel shows under a warning id
SeveritiesOf(warnings, id) ==
  {warnings[k][2] : k \in {k \in 1..Len(warnings) : warnings[k][1] = id}}

\* a pattern analysis of a stored history of 5 records or more was made
Analysed ==
  /\ probe.kind = "patterns" /\ probe.pc = "done"
  /\ Len(probe.history) >= 5
  /\ StoredByLedger(probe.history)

\* C22 - Loss-chasing rule: for a history of n >= 5 records the detector
\* emits the 'chase-losses' warning if and only if r > 0.2, where r is the
\* number of chronologically adjacent pairs in which the earlier bet was a
\* loss and the later bet's stake is at least 30% larger, over n - 1, with
\* severity high if r > 0.4, medium if r > 0.3, else low; earlier and later
\* are decided by timestamp, whatever the order the ledger stores.
C22_LossChasingRule ==
  Analysed =>
    LET c == Chronological(probe.history)
        n == Len(c)
        count == Cardinality({i \in 2..n :
                   c[i-1].outcome = "loss" /\ 10 * c[i].betAmount >= 13 * c[i-1].betAmount})
        expected == IF 10 * count > 2 * (n - 1)
                      THEN {IF 10 * count > 4 * (n - 1) THEN "high"
                            ELSE IF 10 * count > 3 * (n - 1) THEN "medium" ELSE "low"}
                      ELSE {}
    IN  SeveritiesOf(probe.warnings, "chase-losses") = expected

\* what the code does keep: the rule on the pairs adjacent in the stored
\* order, with a stake more than 30% larger
C22_RuleOnStoredOrder ==
  Analysed =>
    LET h == probe.history
        n == Len(h)
        count == Cardinality({i \in 2..n :
                   h[i-1].outcome = "loss" /\ 10 * h[i].betAmount > 13 * h[i-1].betAmount})
        expected == IF 10 * count > 2 * (n - 1)
                      THEN {IF 10 * count > 4 * (n - 1) THEN "high"
                            ELSE IF 10 * count > 3 * (n - 1) THEN "medium" ELSE "low"}
                      ELSE {}
    IN  SeveritiesOf(probe.warnings, "chase-losses") = expected

\* the severity set of a warning raised above 0.3, high above 0.6 and
\* medium above 0.45, for count pairs out of total
RapidSeverities(count, total) ==
  IF total > 0 /\ 10 * count > 3 * total
    THEN {IF 10 * count > 6 * total THEN "high"
          ELSE IF 100 * count > 45 * total THEN "medium" ELSE "low"}
    ELSE {}

\* C23 - Rapid-betting rule: the detector emits the 'rapid-betting' warning
\* if and only if the fraction of chronologically consecutive bet pairs
\* whose time gap is under 2 minutes exceeds 0.3 (high if > 0.6, medium if
\* > 0.45, else low); in particular a history in which every two
\* consecutive bets are at least 2 minutes apart yields no such warning.
C23_RapidBettingRule ==
  Analysed =>
    LET c == Chronological(probe.history)
        n == Len(c)
        rapid == Cardinality({i \in 2..n : c[i].timestamp - c[i-1].timestamp < 120000})
    IN  /\ SeveritiesOf(probe.warnings, "rapid-betting") = RapidSeverities(rapid, n - 1)
        /\ rapid = 0 => SeveritiesOf(probe.warnings, "rapid-betting") = {}

\* what the code does keep: the rule on the signed gaps between the
\* records adjacent in the stored order
C23_RuleOnStoredOrder ==
  Analysed =>
    LET h == probe.history
        n == Len(h)
        rapid == Cardinality({i \in 2..n : h[i].timestamp - h[i-1].timestamp < 120000})
    IN  SeveritiesOf(probe.warnings, "rapid-betting") = RapidSeverities(rapid, n - 1)

\* the trajectory so far: it starts at the current balance and never goes
\* below 0; once the projection is made it has N + 1 entries
C24_TrajectoryShape ==
  (probe.kind = "projection" /\ probe.pc \in {"loop", "done"} /\ Len(probe.history) >= 5) =>
    /\ probe.period \in {10, 25, 50}
    /\ Len(probe.balanceHistory) = probe.step + 1
    /\ probe.balanceHistory[1] = 100 * probe.balance
    /\ \A i \in 1..Len(probe.balanceHistory) : probe.balanceHistory[i] >= 0
    /\ probe.pc = "done" => Len(probe.balanceHistory) = probe.period + 1

\* one simulated bet: one entry more, the earlier ones kept, and the new
\* entry is the previous one less the stake on a loss, plus
\* stake * (1 + riskLevel/100) * 0.8 on a win, floored at 0
C24_TrajectoryStep ==
  (probe.kind = "projection" /\ probe.pc = "loop" /\ probe'.step = probe.step + 1) =>
    LET stake == probe'.currentBetSize
        riskLevel == probe'.currentRiskLevel
        isWin == probe'.totalWins = probe.totalWins + 1
        before == probe.balanceHistory[Len(probe.balanceHistory)]
        after == probe'.balanceHistory[Len(probe'.balanceHistory)]
        gain == MulDiv(stake, (8 * (10000 + riskLevel)) \div 10, 10000)
        change == IF isWin THEN gain ELSE -stake
    IN  /\ Len(probe'.balanceHistory) = Len(probe.balanceHistory) + 1
        /\ SubSeq(probe'.balanceHistory, 1, Len(probe.balanceHistory)) = probe.balanceHistory
        /\ isWin \/ probe'.totalWins = probe.totalWins
        /\ after = IF before + change < 0 THEN 0 ELSE before + change

\* C24 - Projection trajectory: for every horizon N in {10,25,50} the
\* simulated balance trajectory has exactly N+1 entries, its first entry is
\* the current balance, every entry is >= 0, and between consecutive
\* entries the balance changes by exactly -stake on a simulated loss and
\* +stake*(1 + riskLevel/100)*0.8 on a simulated win before flooring at 0.
C24_ProjectionTrajectory == [](C24_TrajectoryShape) /\ [][C24_TrajectoryStep]_vars

\* a finished trajectory with a win, a loss that was floored at 0 and a
\* loss that was not
C24_Witness ==
  /\ probe.kind = "projection" /\ probe.pc = "done" /\ Len(probe.history) >= 5
  /\ Len(probe.balanceHistory) = probe.period + 1
  /\ probe.totalWins > 0
  /\ \E i \in 2..Len(probe.balanceHistory) :
        probe.balanceHistory[i] = 0 /\ probe.balanceHistory[i-1] > 0
  /\ \E i \in 2..Len(probe.balanceHistory) :
        0 < probe.balanceHistory[i] /\ probe.balanceHistory[i] < probe.balanceHistory[i-1]

\* the step-to-step changes of the simulated trajectory
BalanceChanges ==
  [i \in 1..(Len(probe.balanceHistory) - 1) |->
     probe.balanceHistory[i + 1] - probe.balanceHistory[i]]

\* the positions of changes that hold the element at index floor(0.05 * n)
\* of the ascending-sorted changes
AtPercentile(changes) ==
  LET index == (5 * Len(changes)) \div 100
  IN  {i \in 1..Len(changes) :
         /\ Cardinality({j \in 1..Len(changes) : changes[j] < changes[i]}) <= index
         /\ index < Cardinality({j \in 1..Len(changes) : changes[j] <= changes[i]})}

\* C25 - Value-at-Risk is the magnitude of a loss: calculateValueAtRisk
\* returns 0 for an empty list, otherwise |c| where c is the element at
\* index floor(0.05*n) of the ascending-sorted step-to-step balance
\* changes, and whenever the returned value is positive c is a decrease
\* (c < 0) that actually occurs in the trajectory; a trajectory with no
\* losing step has Value-at-Risk 0.
C25_ValueAtRiskIsLoss ==
  Projected =>
    LET changes == BalanceChanges
        valueAtRisk == probe.projections.valueAtRisk
    IN  /\ calculateValueAtRisk(<<>>) = 0
        /\ \A i \in AtPercentile(changes) :
              valueAtRisk = IF changes[i] < 0 THEN -changes[i] ELSE changes[i]
        /\ valueAtRisk > 0 => \A i \in AtPercentile(changes) : changes[i] < 0
        /\ (\A i \in 1..Len(changes) : changes[i] >= 0) => valueAtRisk = 0

\* what the code does keep: the absolute value of the change at the index,
\* be it a decrease or an increase
C25_AbsoluteChangeAtIndex ==
  Projected =>
    LET changes == BalanceChanges
        valueAtRisk == probe.projections.valueAtRisk
    IN  /\ calculateValueAtRisk(<<>>) = 0
        /\ AtPercentile(changes) # {}
        /\ \A i \in AtPercentile(changes) :
              valueAtRisk = IF changes[i] < 0 THEN -changes[i] ELSE changes[i]

\* the metrics of a history of 5 bets or more were computed
Compared == probe.kind = "diversification" /\ probe.pc = "done" /\ Len(probe.history) >= 5

\* 1 - Gini of the per-event bet counts of h, the Gini coefficient being
\* the mean absolute difference over twice the mean, as a fraction
OneMinusGini(h) ==
  LET counts == gameCounts(h)
      n == Cardinality(DOMAIN counts)
      total == Len(h)
      diffs == SumOf([k \in 1..(n * n) |->
                 LET a == counts[SortedKey(counts, ((k - 1) \div n) + 1)]
                     b == counts[SortedKey(counts, ((k - 1) % n) + 1)]
                 IN  IF a >= b THEN a - b ELSE b - a])
  IN  [num |-> 2 * n * total - diffs, den |-> 2 * n * total]

\* h has all its bets on one event
SingleEvent(h) == Cardinality(DOMAIN gameCounts(h)) = 1

\* h is spread equally over two events or more
EquallySpread(h) ==
  /\ Cardinality(DOMAIN gameCounts(h)) >= 2
  /\ \A e, f \in DOMAIN gameCounts(h) : gameCounts(h)[e] = gameCounts(h)[f]

\* C26 - Diversification index: for every non-empty history the index
\* equals 1 minus the Gini coefficient of the per-event bet-count shares,
\* lies in [0,1], and is higher for more evenly spread betting: a history
\* with all bets on a single event gets a strictly lower index than a
\* history of the same length spread equally over two or more events.
C26_DiversificationIndex ==
  Compared =>
    LET index == probe.diversificationIndex
        expected == OneMinusGini(probe.history)
    IN  /\ index.den > 0 /\ index.num * expected.den = expected.num * index.den
        /\ 0 <= index.num /\ index.num <= index.den
        /\ SingleEvent(probe.history) =>
              \A h \in DiversificationHistories :
                (Len(h) = Len(probe.history) /\ EquallySpread(h)) =>
                  index.num * diversificationIndex(h).den
                    < diversificationIndex(h).num * index.den

\* what the code does keep: the index is 1 - Gini over the events that
\* have a bet, and lies in [0,1]
C26_IndexIsOneMinusGini ==
  Compared =>
    LET index == probe.diversificationIndex
        expected == OneMinusGini(probe.history)
    IN  /\ index.den > 0 /\ index.num * expected.den = expected.num * index.den
        /\ 0 <= index.num /\ index.num <= index.den

\* a BetCard wager was settled that had been submitted before another
\* wager settled: since its click exactly one record was stored
SettledAfterOverlap ==
  /\ Accepted /\ last.path = "card"
  /\ Len(last.pre.betHistory) = Len(last.seen.betHistory) + 1
  /\ last.pre.gameState = "playing"

\* C27 - No lost update under overlapping submissions: when two wagers are
\* submitted through the UI before the first has settled, both settlements
\* are applied: the final balance is the balance the first settlement left
\* plus the second settlement, hence the initial balance plus both; the
\* history contains both records; and the balance equals the balanceAfter
\* of the latest record.
C27_NoLostUpdate ==
  SettledAfterOverlap =>
    /\ 10 * balance = 10 * last.pre.balance
                        + (IF last.isWin
                             THEN last.amount * (betEvents[last.eventId].mult10 - 10)
                             ELSE -10 * last.amount)
    /\ Len(betHistory) = Len(last.pre.betHistory) + 1
    /\ \A i \in 1..Len(last.pre.betHistory) :
          \E j \in 1..Len(betHistory) : betHistory[j] = last.pre.betHistory[i]
    /\ balance = NewRecord.balanceAfter

\* what the code does keep: the balance is the balanceAfter of the record
\* just stored, both computed from the balance seen at the click
C27_BalanceOfLatestRecord ==
  SettledAfterOverlap =>
    /\ balance = NewRecord.balanceAfter
    /\ 10 * balance = 10 * last.seen.balance
                        + (IF last.isWin
                             THEN last.amount * (betEvents[last.eventId].mult10 - 10)
                             ELSE -10 * last.amount)

\* stakes to try at the current balance: every event's minimum, the whole
\* balance and the amounts the callers pass.  An event takes the stakes
\* from its minBet up to its maxBet and the balance, so it takes some stake
\* exactly when it takes its minBet
StakesToTry ==
  {betEvents[e].minBet : e \in EventIds} \cup {balance} \cup Amounts \cup FormAmounts

\* C28 - No stuck game: in every reachable state with state = Playing there
\* is at least one (eventId, amount) that placeBet accepts: the ledger never
\* sits in Playing with a balance below every event's minBet, where no
\* wager can be placed and neither Won nor Lost reached without a reset.
C28_NoStuckGame ==
  gameState = "playing" =>
    \E eventId \in EventIds, amount \in StakesToTry :
      validate(Closure, eventId, amount) = "ok"

\* what the code does keep: a wager is accepted in Playing as soon as the
\* balance reaches the lowest minBet of the catalog
C28_PlayableFromLowestMinBet ==
  (gameState = "playing" /\ \E e \in EventIds : balance >= betEvents[e].minBet) =>
    \E eventId \in EventIds, amount \in StakesToTry :
      validate(Closure, eventId, amount) = "ok"

\* the utility scorer was called with the win probability of a catalog event
UtilityScored ==
  /\ probe.kind = "calculateRiskPercentage" /\ probe.pc = "done"
  /\ probe.balance > 0 /\ probe.amount >= 0
  /\ \E e \in EventIds : betEvents[e].winChance1000 = probe.p1000

\* C29 - The exported utility scorer agrees with the ledger's scorer: for
\* every amount >= 0, balance > 0 and win probability p of a catalog event,
\* calculateRiskPercentage(amount, balance, p) returns the value
\* GameContext.calculateRisk returns for that event and amount at that
\* balance.
C29_ScorersAgree ==
  UtilityScored =>
    \A e \in EventIds :
      betEvents[e].winChance1000 = probe.p1000 =>
        probe.score.num = probe.score.den * calculateRisk(probe.balance, e, probe.amount, 1)

\* what the utility scorer returns for every catalog probability: 100,
\* since 30 * (1 - p) * 100 alone is above 100
C29_UtilityScoreIs100 ==
  UtilityScored => probe.score = [num |-> 100, den |-> 1]

\* C30 - The two persona classifiers agree: for every integer risk 0..100
\* and every balance >= 0, determinePersona(risk) names the persona that
\* the GameContext persona table lookup selects for that risk, and
\* calculateMaxBet(balance, risk) equals balance times that persona's
\* maxBetPercentage (0.1 up to 30, 0.3 up to 70, 1.0 above); the cap is
\* compared in tenths of a dollar.
C30_PersonaClassifiersAgree ==
  (probe.kind = "persona" /\ probe.pc = "done") =>
    LET selected == getCurrentPersona(probe.risk)
    IN  /\ probe.persona = selected.name
        /\ probe.maxBet = probe.balance * selected.maxBetPercentage10
        /\ selected.maxBetPercentage10 =
              (IF probe.risk <= 30 THEN 1 ELSE IF probe.risk <= 70 THEN 3 ELSE 10)

\* the two classifiers at the first boundary, risk 30, with a balance of 1000
C30_Witness ==
  /\ probe.kind = "persona" /\ probe.pc = "done"
  /\ probe.risk = 30 /\ probe.balance = 1000
  /\ probe.persona = "Baby Betsy"
  /\ getCurrentPersona(30).id = "baby-betsy"
  /\ probe.maxBet = 1000

====
